---- MODULE Spec2Model ----
(***************************************************************************)
(* The OBD telemetry loggers of the repository as state machines.  The     *)
(* repository holds several independent programs (lastone.py, loger3.py,   *)
(* complete.py, finalboss.py, loger2-Ari.py, loger.py, loger1.py); one run *)
(* executes one of them, chosen by `program`.  The adapter (python-OBD     *)
(* connection), the file system and the operator pressing buttons or       *)
(* calling the web API are the environment.                                *)
(***************************************************************************)
EXTENDS Integers, Sequences, FiniteSets, TLC

(* ------------------------------ bounds -------------------------------- *)
\* ticks a polling / logging thread runs
MaxTicks == 3
\* control commands (button presses, API calls) issued in one run
MaxCmds == 3
\* faults of the environment in one run: the adapter link going up or down,
\* a write to a sink failing
MaxFaults == 1
\* rows per flush; the programs use 10 (lastone.py:18, loger3.py:14), scaled
\* down so that count-triggered flushes happen within MaxTicks
CSV_BUFFER_FLUSH == 2

(* --------------------------- values and rows --------------------------- *)
\* the "N/A" string the programs keep for a parameter without a reading
NA == -1000
\* a response whose is_null() is true (or a None response)
NULL == -2000
\* the cell of a header row
HDR == -3000
\* None, for a path or a cached value
None == -4000
\* magnitudes are carried in quarter units (RPM resolution of the adapter)
QUARTER == 4

Params == {"rpm", "speed", "coolant", "oil"}

\* int(x): truncation toward zero of a magnitude given in quarter units
IntOf(m) == IF m >= 0 THEN m \div QUARTER ELSE -((-m) \div QUARTER)

\* the responses one polling cycle can get from a reachable adapter
Responses ==
  { [rpm |-> 3201, speed |-> 200, coolant |-> 360, oil |-> NULL],
    [rpm |-> NULL, speed |-> NULL, coolant |-> NULL, oil |-> NULL],
    [rpm |-> 3282, speed |-> NULL, coolant |-> 364, oil |-> 380] }

\* the initial cached values
InitialValues == [rpm |-> 0, speed |-> 0, coolant |-> 0, oil |-> NA]

\* the header row new_csv_file writes
HeaderRow == [ts |-> HDR, rpm |-> HDR, speed |-> HDR, coolant |-> HDR, oil |-> HDR]

\* the row a tick builds from the values it holds
RowOf(ts, v) ==
  [ts |-> ts, rpm |-> v.rpm, speed |-> v.speed, coolant |-> v.coolant, oil |-> v.oil]

DataRows(f) == SelectSeq(f, LAMBDA r : r.ts # HDR)

\* the parameters a set of responses holds a valid reading for
Valid(r) == {p \in DOMAIN r : r[p] # NULL}

VARIABLES
  program,   \* which program of the repository runs
  link,      \* whether the adapter is reachable
  flips,     \* how often the link changed
  obd_conn,  \* the connection object: "None", "live" (is_connected()) or "dead"
  files,     \* the CSV sinks created so far, each a sequence of rows
  ctl,       \* the control surface: commands issued, the last one and its outcome
  STATE_,     \* lastone.py: the shared STATE dict
  poll,      \* lastone.py: data_polling_thread's locals and position
  sess,      \* rows appended since the last successful start, in order
  now,       \* the clock: ticks started so far; a row's timestamp
  got,       \* the parameters the adapter has answered with a valid reading
  state,     \* loger3.py: the shared state dict
  stop_event,\* loger3.py: _stop_event
  log_thread,\* loger3.py: _log_thread, an index into lt (0: None)
  lt,        \* loger3.py: the logger_thread instances started so far
  app,       \* complete.py, finalboss.py: the CarDashboard object
  loops,     \* complete.py, finalboss.py: the logging_loop threads started
  obd_data,  \* loger2-Ari.py: the obd_data dict
  logged_data, \* loger2-Ari.py: the logged data points
  is_logging,  \* loger2-Ari.py: the logging flag
  dthread,   \* loger2-Ari.py: obd_data_thread's locals and position; reconn
             \* records a call of connect_obd() by the thread (it has none)
  latest,    \* loger.py: the callback-driven cache
  shown,     \* loger.py, loger1.py: the values last printed
  last1,     \* loger1.py: last_rpm, last_speed, last_cool, last_oil
  timer,     \* lastone.py, loger3.py: the wall clock and the loop's start,
             \* elapsed and to_sleep, in integer units of time
  sync       \* loger3.py: who holds state_lock, and where the request handler
             \* and each logger thread stand between their lock sections

varsL1 == <<STATE_, poll>>
varsL3 == <<state, stop_event, log_thread, lt>>
varsGui == <<app, loops>>
varsL2 == <<obd_data, logged_data, is_logging, dthread>>
varsLg == <<latest, shown, last1>>
vars == <<program, link, flips, got, obd_conn, files, ctl, sess, now, got,
          varsL1, varsL3, varsGui, varsL2, varsLg, timer,
          sync>>

\* what the steps of one program leave alone
NotL1 == <<program, timer, sync, varsL3, varsGui, varsL2, varsLg>>
NotL3 == <<program, timer, sync, varsL1, varsGui, varsL2, varsLg>>
NotGui == <<program, timer, sync, varsL1, varsL3, varsL2, varsLg>>
NotL2 == <<program, timer, sync, varsL1, varsL3, varsGui, varsLg>>
NotLg == <<program, timer, sync, varsL1, varsL3, varsGui, varsL2>>

(* ------------------------------ adapter -------------------------------- *)
\* obd.OBD(...): the connection object the constructor returns; it opens the
\* socket itself and reports a failure through is_connected()
OBD == IF link THEN "live" ELSE "dead"

IsConnected(c) == c = "live"

Faults == flips + ctl.ioerrs

\* a write fails: the control record with the error counted
IOError(c) == [c EXCEPT !.ioerr = TRUE, !.ioerrs = @ + 1]

\* what a write of rows that raises leaves in the files: nothing of the rows
\* (open() raised), or their first k (the disk filled while they were written)
Failed(path, rows) ==
  {files} \cup {[files EXCEPT ![path] = @ \o SubSeq(rows, 1, k)] :
                  k \in 1..(Len(rows) - 1)}

\* open(path, "a") and writerows(rows) inside try/except: the outcomes
\* <<written, files, ctl>>.  open(None) raises a TypeError, caught like an
\* I/O error.  A sink that has failed may stay unwritable.
WriteOutcomes(path, rows) ==
  IF path = None
    THEN { <<FALSE, files, [ctl EXCEPT !.ioerr = TRUE]>> }
    ELSE { <<TRUE, [files EXCEPT ![path] = @ \o rows], ctl>> }
         \cup (IF Faults < MaxFaults
                 THEN { <<FALSE, f, IOError(ctl)>> : f \in Failed(path, rows) }
                 ELSE {})
         \cup (IF ctl.ioerrs > 0 THEN { <<FALSE, files, ctl>> } ELSE {})

LinkFlip ==
  /\ Faults < MaxFaults
  /\ link' = ~link
  /\ flips' = flips + 1
  /\ UNCHANGED <<program, timer, sync, obd_conn, files, ctl, sess, now, got,
                 varsL1, varsL3, varsGui, varsL2, varsLg>>

\* an adapter that was lost becomes reachable again
LinkBack ==
  /\ ~link /\ flips > 0
  /\ link' = TRUE
  /\ UNCHANGED <<program, timer, sync, flips, obd_conn, files, ctl, sess, now, got,
                 varsL1, varsL3, varsGui, varsL2, varsLg>>

(* ------------------------------ lastone.py ----------------------------- *)
L1 == program = "lastone" /\ ~ctl.exited

\* a variant that forgets the cached value on a null response; C9 must tell
\* it from LastGood
NullAsZero(old, resp) == IF resp # NULL THEN IntOf(resp) ELSE 0

\* last-good update of one parameter, lastone.py lines 106-113
LastGood(old, resp) == IF resp # NULL THEN IntOf(resp) ELSE old

UpdateVals(v, r) == [p \in Params |-> LastGood(v[p], r[p])]

\* the order in which a tick issues its queries, lines 98-101
QueryOrder == <<"rpm", "speed", "coolant", "oil">>

\* a variant that caches the answers received before the query that raised;
\* C20 must tell it from Withheld
AppliedSoFar(v, r, k) ==
  [p \in Params |->
     IF \E j \in 1..k : QueryOrder[j] = p THEN LastGood(v[p], r[p]) ELSE v[p]]

\* the cached values v after a tick whose query k + 1 raised, the first k
\* having answered r: the updates follow the last query inside the try
\* (lastone.py lines 106-113; loger3.py lines 105-109 set every response to
\* None), so no answer is applied
Withheld(v, r, k) == v

\* a command is issued; `again` records that it is a stop or a close following
\* a stop with no other command in between
Cmd(name, outcome) ==
  [ctl EXCEPT !.n = @ + 1, !.last = name, !.outcome = outcome,
              !.reason = "none",
              !.again = name \in {"stop", "close"} /\ ctl.last = "stop",
              !.at = IF name = "start" /\ outcome = "ok" THEN -1
                     ELSE IF name = "stop" /\ outcome \in {"ok", "joining"}
                             /\ ctl.at = -1
                       THEN now ELSE @,
              !.mark = IF name = "stop" /\ outcome \in {"ok", "joining"}
                          /\ ctl.at = -1
                       THEN Len(sess) ELSE @]

\* a command is refused and the caller is told why: a warning box, or an
\* error body with status 400
Refused(name, outcome, why) == [Cmd(name, outcome) EXCEPT !.reason = why]

\* tick start, lines 81-93: the locked copy of STATE, then init_obd() when
\* the copy says disconnected (poll.reconn records that it was called)
PollStart ==
  /\ L1 /\ poll.pc = "start" /\ now < MaxTicks
  /\ now' = now + 1
  /\ IF ~STATE_.connected \/ obd_conn = "None"
       THEN /\ obd_conn' = OBD
            /\ STATE_' = [STATE_ EXCEPT !.connected = IsConnected(OBD)]
       ELSE UNCHANGED <<obd_conn, STATE_>>
  /\ poll' = [poll EXCEPT !.pc = "query", !.tick = now + 1, !.raised = FALSE,
                          !.reconn = ~STATE_.connected \/ obd_conn = "None",
                          !.is_logging = STATE_.is_logging,
                          !.last_vals = STATE_.last_values,
                          !.csv_path = STATE_.csv_path]
  /\ UNCHANGED <<NotL1, link, flips, got, files, ctl, sess>>

\* a variant that publishes the connectivity flag and not the values; C21
\* must tell it from Publish
PublishFlagOnly(st, v, c) == [st EXCEPT !.connected = c]

\* a variant that ends the session when the tick finds the adapter gone; C25
\* must tell it from Publish
PublishEndsSession(st, v, c) ==
  [st EXCEPT !.connected = c, !.last_values = v, !.is_logging = @ /\ c]

\* lines 116-119: the values v the tick holds and the connectivity c are
\* written to STATE under the lock
Publish(st, v, c) == [st EXCEPT !.connected = c, !.last_values = v]

\* lines 96-124: the four queries and the publication of their result
PollQuery ==
  /\ L1 /\ poll.pc = "query"
  /\ \/ /\ IsConnected(obd_conn) /\ link
        /\ \E r \in Responses :
             LET v == UpdateVals(poll.last_vals, r) IN
               /\ poll' = [poll EXCEPT !.pc = "log", !.last_vals = v]
               /\ STATE_' = Publish(STATE_, v, TRUE)
               /\ got' = got \cup Valid(r)
        /\ UNCHANGED obd_conn
     \/ \* the link is gone: a query raises, and the tick publishes nothing
        /\ IsConnected(obd_conn) /\ ~link
        /\ obd_conn' \in {"live", "dead"}
        /\ \E r \in Responses, k \in 0..(Len(QueryOrder) - 1) :
             STATE_' = [STATE_ EXCEPT !.connected = FALSE,
                                      !.last_values = Withheld(@, r, k)]
        /\ poll' = [poll EXCEPT !.pc = "log", !.raised = TRUE]
        /\ UNCHANGED got
     \/ \* the link is gone: the library marks the connection dead and
        \* answers null
        /\ IsConnected(obd_conn) /\ ~link
        /\ obd_conn' = "dead"
        /\ STATE_' = Publish(STATE_, poll.last_vals, FALSE)
        /\ poll' = [poll EXCEPT !.pc = "log"]
        /\ UNCHANGED got
     \/ /\ ~IsConnected(obd_conn)
        /\ STATE_' = Publish(STATE_, poll.last_vals, FALSE)
        /\ poll' = [poll EXCEPT !.pc = "log"]
        /\ UNCHANGED <<obd_conn, got>>
  /\ UNCHANGED <<NotL1, now, link, flips, files, ctl, sess>>

\* whether a count-triggered flush is due and has a path to write to
FlushDue(buf, n, path) == n >= CSV_BUFFER_FLUSH /\ path # None

\* lines 127-158: the row of this tick is buffered and counted when logging
\* was on at tick start and the flag says connected; a due flush writes the
\* buffer to the path read at tick start, or fails and keeps it
PollLog ==
  /\ L1 /\ poll.pc = "log"
  /\ IF poll.is_logging /\ STATE_.connected
       THEN LET row == RowOf(poll.tick, poll.last_vals)
                buf == Append(poll.buffer_rows, row)
                n   == poll.rows_since_flush + 1
            IN /\ sess' = Append(sess, row)
               /\ STATE_' = [STATE_ EXCEPT !.total_records = @ + 1]
               /\ IF FlushDue(buf, n, poll.csv_path)
                    THEN \E w \in WriteOutcomes(poll.csv_path, buf) :
                           /\ files' = w[2]
                           /\ ctl' = w[3]
                           /\ poll' = [poll EXCEPT
                                !.pc = "start",
                                !.buffer_rows = IF w[1] THEN <<>> ELSE buf,
                                !.rows_since_flush = IF w[1] THEN 0 ELSE n]
                    ELSE /\ poll' = [poll EXCEPT !.pc = "start",
                                                 !.buffer_rows = buf,
                                                 !.rows_since_flush = n]
                         /\ UNCHANGED <<files, ctl>>
       ELSE /\ poll' = [poll EXCEPT !.pc = "start"]
            /\ UNCHANGED <<sess, STATE_, files, ctl>>
  /\ UNCHANGED <<NotL1, now, link, flips, got, obd_conn>>

\* new_csv_file(): a fresh sink holding the header row; <<files, path>>
\* a variant that creates the sink and writes no header; C29 must tell it
\* from NewCsvFile
NewCsvFileBare == <<Append(files, <<>>), Len(files) + 1>>

NewCsvFile == <<Append(files, <<HeaderRow>>), Len(files) + 1>>

\* a variant that creates the sink before it looks at the connectivity flag;
\* C10 must tell it from StartLogging
StartLoggingEager ==
  /\ L1 /\ ctl.n < MaxCmds
  /\ files' = NewCsvFile[1]
  /\ IF ~STATE_.connected
       THEN /\ ctl' = Cmd("start", "rejected")
            /\ UNCHANGED <<STATE_, sess>>
       ELSE /\ STATE_' = [STATE_ EXCEPT !.csv_path = NewCsvFile[2],
                                       !.total_records = 0,
                                       !.is_logging = TRUE]
            /\ sess' = <<>>
            /\ ctl' = Cmd("start", "ok")
  /\ UNCHANGED <<NotL1, now, link, flips, got, obd_conn, poll>>

\* CarDashboard.start_logging
StartLogging ==
  /\ L1 /\ ctl.n < MaxCmds
  /\ IF ~STATE_.connected
       THEN /\ ctl' = Refused("start", "rejected", "ECU is not connected")
            /\ UNCHANGED <<STATE_, files, sess>>
       ELSE \/ /\ files' = NewCsvFile[1]
               /\ STATE_' = [STATE_ EXCEPT !.csv_path = NewCsvFile[2],
                                         !.total_records = 0,
                                         !.is_logging = TRUE]
               /\ sess' = <<>>
               /\ ctl' = Cmd("start", "ok")
            \/ \* the sink cannot be created: open() raises
               /\ Faults < MaxFaults
               /\ ctl' = IOError(Cmd("start", "raised"))
               /\ UNCHANGED <<STATE_, files, sess>>
  /\ UNCHANGED <<NotL1, now, link, flips, got, obd_conn, poll>>

\* CarDashboard.stop_logging
StopLogging ==
  /\ L1 /\ ctl.n < MaxCmds
  /\ STATE_' = [STATE_ EXCEPT !.is_logging = FALSE]
  /\ ctl' = Cmd("stop", "ok")
  /\ UNCHANGED <<NotL1, now, link, flips, got, obd_conn, files, poll, sess>>

\* CarDashboard.connect_wifi: nmcli, then init_obd() on success
ConnectWifi ==
  /\ L1 /\ ctl.n < MaxCmds
  /\ \/ /\ obd_conn' = OBD
        /\ STATE_' = [STATE_ EXCEPT !.connected = IsConnected(OBD)]
        /\ ctl' = Cmd("connect", "ok")
     \/ /\ ctl' = Cmd("connect", "wifi failed")
        /\ UNCHANGED <<obd_conn, STATE_>>
  /\ UNCHANGED <<NotL1, now, link, flips, got, files, poll, sess>>

\* CarDashboard.close_app: the process exits, the daemon thread with it
CloseApp ==
  /\ L1 /\ ctl.n < MaxCmds
  /\ STATE_' = [STATE_ EXCEPT !.is_logging = FALSE]
  /\ obd_conn' = IF obd_conn = "None" THEN "None" ELSE "dead"
  /\ ctl' = [Cmd("close", "ok") EXCEPT !.exited = TRUE]
  /\ UNCHANGED <<NotL1, now, link, flips, got, files, poll, sess>>

NextL1 ==
  \/ PollStart \/ PollQuery \/ PollLog
  \/ StartLogging \/ StopLogging \/ ConnectWifi \/ CloseApp

(* ------------------------------ loger3.py ------------------------------ *)
L3 == program = "loger3"

\* last-good update of one parameter, loger3.py lines 114-139: the magnitude
\* is kept as the adapter gave it
LastGood3(old, resp) == IF resp # NULL THEN resp ELSE old

UpdateVals3(v, r) == [p \in Params |-> LastGood3(v[p], r[p])]

NewThread ==
  [pc |-> "loop", tick |-> 0, raised |-> FALSE, reconn |-> FALSE,
   last_vals |-> InitialValues, buffer_rows |-> <<>>, rows_since_flush |-> 0]

\* lines 85-97: the loop test, then init_obd() when the connection object
\* says disconnected, then the locked copy of the last values
LtLoop(i) ==
  /\ L3 /\ i \in 1..Len(lt) /\ lt[i].pc = "loop"
  /\ IF stop_event
       THEN /\ lt' = [lt EXCEPT ![i].pc = "final"]
            /\ UNCHANGED <<now, obd_conn, state>>
       ELSE /\ now < MaxTicks
            /\ now' = now + 1
            /\ IF ~IsConnected(obd_conn)
                 THEN /\ obd_conn' = OBD
                      /\ state' = [state EXCEPT !.connected = IsConnected(OBD)]
                 ELSE UNCHANGED <<obd_conn, state>>
            /\ lt' = [lt EXCEPT ![i].pc = "query", ![i].tick = now + 1,
                                ![i].raised = FALSE,
                                ![i].reconn = ~IsConnected(obd_conn),
                                ![i].last_vals = state.last_values]
  /\ UNCHANGED <<NotL3, link, flips, got, files, ctl, sess, stop_event, log_thread>>

\* lines 146-176 for a tick holding values v: the row is buffered and counted
\* whatever the tick read; a due flush writes the buffer to the path state
\* holds now, or fails and keeps it.  st is state as the queries left it.
LtAppend(i, v, st, raised) ==
  LET row == RowOf(lt[i].tick, v)
      buf == Append(lt[i].buffer_rows, row)
      n   == lt[i].rows_since_flush + 1
      me  == [lt[i] EXCEPT !.pc = "loop", !.last_vals = v, !.raised = raised]
  IN /\ sess' = Append(sess, row)
     /\ state' = [st EXCEPT !.total_records = @ + 1]
     /\ IF n >= CSV_BUFFER_FLUSH
          THEN \E w \in WriteOutcomes(state.csv_path, buf) :
                 /\ files' = w[2]
                 /\ ctl' = w[3]
                 /\ lt' = [lt EXCEPT ![i] =
                      [me EXCEPT !.buffer_rows = IF w[1] THEN <<>> ELSE buf,
                                 !.rows_since_flush = IF w[1] THEN 0 ELSE n]]
          ELSE /\ lt' = [lt EXCEPT ![i] = [me EXCEPT !.buffer_rows = buf,
                                                     !.rows_since_flush = n]]
               /\ UNCHANGED <<files, ctl>>

\* lines 99-176: the four queries, each issued only while the connection
\* says connected, the locked write-back of values and connectivity, then
\* the row of the tick
LtTick(i) ==
  /\ L3 /\ i \in 1..Len(lt) /\ lt[i].pc = "query"
  /\ \/ /\ IsConnected(obd_conn) /\ link
        /\ \E r \in Responses :
             LET v == UpdateVals3(lt[i].last_vals, r) IN
               /\ LtAppend(i, v, [state EXCEPT !.connected = TRUE,
                                               !.last_values = v], FALSE)
               /\ got' = got \cup Valid(r)
        /\ UNCHANGED obd_conn
     \/ \* the link is gone and a query raises: connected is set false in the
        \* handler, then written again from is_connected()
        /\ IsConnected(obd_conn) /\ ~link
        /\ obd_conn' \in {"live", "dead"}
        /\ \E r \in Responses, k \in 0..(Len(QueryOrder) - 1) :
             LET v == Withheld(lt[i].last_vals, r, k) IN
               LtAppend(i, v, [state EXCEPT !.connected = IsConnected(obd_conn'),
                                            !.last_values = v], TRUE)
        /\ UNCHANGED got
     \/ \* the link is gone: the library marks the connection dead and
        \* answers null
        /\ IsConnected(obd_conn) /\ ~link
        /\ obd_conn' = "dead"
        /\ LtAppend(i, lt[i].last_vals,
                    [state EXCEPT !.connected = FALSE,
                                  !.last_values = lt[i].last_vals], FALSE)
        /\ UNCHANGED got
     \/ /\ ~IsConnected(obd_conn)
        /\ LtAppend(i, lt[i].last_vals,
                    [state EXCEPT !.connected = FALSE,
                                  !.last_values = lt[i].last_vals], FALSE)
        /\ UNCHANGED <<obd_conn, got>>
  /\ UNCHANGED <<NotL3, now, link, flips, stop_event, log_thread>>

\* lines 178-185: the final flush, once the loop has seen the stop event
LtFinal(i) ==
  /\ L3 /\ i \in 1..Len(lt) /\ lt[i].pc = "final"
  /\ IF lt[i].buffer_rows # <<>>
       THEN \E w \in WriteOutcomes(state.csv_path, lt[i].buffer_rows) :
              files' = w[2] /\ ctl' = w[3]
       ELSE UNCHANGED <<files, ctl>>
  /\ lt' = [lt EXCEPT ![i].pc = "done", ![i].buffer_rows = <<>>]
  /\ UNCHANGED <<NotL3, now, link, flips, got, obd_conn, sess, state, stop_event,
                 log_thread>>

\* _log_thread.join(timeout=5) returns: the thread has ended, or the timeout
\* expired, which takes a thread blocked on an unreachable adapter
\* (OBD_TIMEOUT is 5 s as well)
JoinReturns ==
  \/ log_thread = 0
  \/ lt[log_thread].pc = "done"
  \/ ~link /\ lt[log_thread].pc = "query"

\* POST /api/start_logging
ApiStartLogging ==
  /\ L3 /\ ctl.busy = "none" /\ ctl.n < MaxCmds
  /\ IF state.is_logging
       THEN /\ ctl' = Refused("start", "rejected", "Already logging")
            /\ UNCHANGED <<state, files, sess, stop_event, log_thread, lt>>
       ELSE \/ /\ files' = NewCsvFile[1]
               /\ state' = [state EXCEPT !.csv_path = NewCsvFile[2],
                                         !.total_records = 0,
                                         !.is_logging = TRUE]
               /\ stop_event' = FALSE
               /\ lt' = Append(lt, NewThread)
               /\ log_thread' = Len(lt) + 1
               /\ sess' = <<>>
               /\ ctl' = Cmd("start", "ok")
            \/ \* the sink cannot be created: open() raises
               /\ Faults < MaxFaults
               /\ ctl' = IOError(Cmd("start", "raised"))
               /\ UNCHANGED <<state, files, sess, stop_event, log_thread, lt>>
  /\ UNCHANGED <<NotL3, now, link, flips, got, obd_conn>>

\* POST /api/stop_logging, lines 240-246: up to the join
ApiStopLogging ==
  /\ L3 /\ ctl.busy = "none" /\ ctl.n < MaxCmds
  /\ IF ~state.is_logging
       THEN /\ ctl' = Refused("stop", "error", "Not currently logging")
            /\ UNCHANGED <<state, stop_event>>
       ELSE /\ state' = [state EXCEPT !.is_logging = FALSE]
            /\ stop_event' = TRUE
            /\ ctl' = [Cmd("stop", "joining") EXCEPT !.busy = "stop"]
  /\ UNCHANGED <<NotL3, now, link, flips, got, obd_conn, files, sess, log_thread, lt>>

\* POST /api/stop_logging, lines 247-255: the join returns and the totals
\* are read
ApiStopReturn ==
  /\ L3 /\ ctl.busy = "stop" /\ JoinReturns
  /\ ctl' = [ctl EXCEPT !.busy = "none", !.outcome = "ok",
                        !.total = state.total_records]
  /\ UNCHANGED <<NotL3, now, link, flips, got, obd_conn, files, sess, varsL3>>

\* os.remove(path) when the file exists
Removed(path) ==
  IF path = None THEN files ELSE [files EXCEPT ![path] = <<>>]

\* the state api_clear_data leaves, lines 267-277
Cleared ==
  [state EXCEPT !.is_logging = FALSE, !.csv_path = None, !.total_records = 0]

\* POST /api/clear_data: when logging, the stop event is set and the thread
\* joined first (ApiClearReturn)
ApiClearData ==
  /\ L3 /\ ctl.busy = "none" /\ ctl.n < MaxCmds
  /\ IF state.is_logging
       THEN /\ stop_event' = TRUE
            /\ ctl' = [Cmd("clear", "joining") EXCEPT !.busy = "clear"]
            /\ UNCHANGED <<state, files>>
       ELSE /\ state' = [state EXCEPT !.csv_path = None, !.total_records = 0]
            /\ files' = Removed(state.csv_path)
            /\ stop_event' = FALSE
            /\ ctl' = Cmd("clear", "ok")
  /\ UNCHANGED <<NotL3, now, link, flips, got, obd_conn, sess, log_thread, lt>>

ApiClearReturn ==
  /\ L3 /\ ctl.busy = "clear" /\ JoinReturns
  /\ state' = Cleared
  /\ files' = Removed(state.csv_path)
  /\ stop_event' = FALSE
  /\ ctl' = [ctl EXCEPT !.busy = "none", !.outcome = "ok"]
  /\ UNCHANGED <<NotL3, now, link, flips, got, obd_conn, sess, log_thread, lt>>

NextL3 ==
  \/ \E i \in 1..MaxCmds : LtLoop(i) \/ LtTick(i) \/ LtFinal(i)
  \/ ApiStartLogging \/ ApiStopLogging \/ ApiStopReturn
  \/ ApiClearData \/ ApiClearReturn

(* ----------------------- complete.py, finalboss.py --------------------- *)
\* the two dashboards differ only in what a null response does to a value
Gui == program \in {"complete", "finalboss"} /\ ~ctl.exited

\* complete.py lines 159-162: a null response reads as 0, or "N/A" for oil
ZeroOnNull(p, resp) ==
  IF resp # NULL THEN IntOf(resp) ELSE IF p = "oil" THEN NA ELSE 0

\* the values a loop iteration logs and displays
TickValues(r) ==
  IF program = "complete"
    THEN [p \in Params |-> ZeroOnNull(p, r[p])]
    ELSE [p \in Params |-> LastGood(app.val[p], r[p])]

AllNull == [p \in Params |-> NULL]

\* CarDashboard.connect_wifi, connect_obd
GuiConnect ==
  /\ Gui /\ ctl.n < MaxCmds
  /\ \/ /\ obd_conn' = OBD
        /\ ctl' = Cmd("connect", "ok")
     \/ /\ ctl' = Cmd("connect", "wifi failed")
        /\ UNCHANGED obd_conn
  /\ UNCHANGED <<NotGui, now, link, flips, got, files, sess, varsGui>>

\* CarDashboard.start_logging: a bare return when not connected (nothing is
\* shown or returned), else the sink is opened and a logging_loop thread
\* started
GuiStartLogging ==
  /\ Gui /\ ctl.n < MaxCmds
  /\ IF ~IsConnected(obd_conn)
       THEN /\ ctl' = Cmd("start", "rejected")
            /\ UNCHANGED <<app, loops, files, sess>>
       ELSE \/ /\ files' = NewCsvFile[1]
               /\ app' = [app EXCEPT !.csv_file = NewCsvFile[2],
                                     !.writer = NewCsvFile[2],
                                     !.open = @ \cup {NewCsvFile[2]},
                                     !.running = TRUE]
               /\ loops' = Append(loops, "loop")
               /\ sess' = <<>>
               /\ ctl' = Cmd("start", "ok")
            \/ /\ Faults < MaxFaults
               /\ ctl' = IOError(Cmd("start", "raised"))
               /\ UNCHANGED <<app, loops, files, sess>>
  /\ UNCHANGED <<NotGui, now, link, flips, got, obd_conn>>

\* a variant that closes the file without looking whether one is held; C8
\* must tell it from Stopped
StoppedUnguarded(a) ==
  [a EXCEPT !.running = FALSE, !.open = @ \ {a.csv_file}, !.closes = @ + 1,
            !.csv_file = None]

\* the CarDashboard after stop_logging: the file is closed when one is held
Stopped(a) ==
  [a EXCEPT !.running = FALSE,
            !.open = IF a.csv_file # None THEN @ \ {a.csv_file} ELSE @,
            !.closes = IF a.csv_file # None THEN @ + 1 ELSE @,
            !.csv_file = None]

\* CarDashboard.stop_logging
GuiStopLogging ==
  /\ Gui /\ ctl.n < MaxCmds
  /\ app' = Stopped(app)
  /\ ctl' = Cmd("stop", "ok")
  /\ UNCHANGED <<NotGui, now, link, flips, got, obd_conn, files, sess, loops>>

\* CarDashboard.close_app: stop_logging(), then the window is destroyed
GuiCloseApp ==
  /\ Gui /\ ctl.n < MaxCmds
  /\ app' = Stopped(app)
  /\ ctl' = [Cmd("close", "ok") EXCEPT !.exited = TRUE]
  /\ UNCHANGED <<NotGui, now, link, flips, got, obd_conn, files, sess, loops>>

\* logging_loop: the test of self.running
GuiLoopTest(i) ==
  /\ Gui /\ i \in 1..Len(loops) /\ loops[i] = "loop"
  /\ IF app.running
       THEN /\ now < MaxTicks
            /\ now' = now + 1
            /\ loops' = [loops EXCEPT ![i] = "query"]
       ELSE /\ loops' = [loops EXCEPT ![i] = "done"]
            /\ UNCHANGED now
  /\ UNCHANGED <<NotGui, link, flips, got, obd_conn, files, ctl, sess, app>>

\* one iteration for the responses r: the values, the row written through
\* self.writer and flushed, the labels.  Writing to a closed file raises and
\* ends the thread.
GuiIteration(i, r) ==
  LET v == TickValues(r)
      row == RowOf(now, v)
      a == [app EXCEPT !.val = IF program = "finalboss" THEN v ELSE @]
  IN IF app.writer = None
       THEN /\ app' = [a EXCEPT !.labels = v]
            /\ loops' = [loops EXCEPT ![i] = "loop"]
            /\ UNCHANGED <<files, sess>>
       ELSE IF app.writer \in app.open /\ app.csv_file # None
         THEN /\ files' = [files EXCEPT ![app.writer] = Append(@, row)]
              /\ sess' = Append(sess, row)
              /\ app' = [a EXCEPT !.labels = v]
              /\ loops' = [loops EXCEPT ![i] = "loop"]
         ELSE /\ app' = a
              /\ loops' = [loops EXCEPT ![i] = "crashed"]
              /\ UNCHANGED <<files, sess>>

\* logging_loop: the four queries, unguarded, and the rest of the iteration
GuiLoopTick(i) ==
  /\ Gui /\ i \in 1..Len(loops) /\ loops[i] = "query"
  /\ \/ /\ IsConnected(obd_conn) /\ link
        /\ \E r \in Responses : GuiIteration(i, r) /\ got' = got \cup Valid(r)
        /\ UNCHANGED obd_conn
     \/ \* the link is gone and a query raises: nothing catches it, and the
        \* thread ends ("raised")
        /\ IsConnected(obd_conn) /\ ~link
        /\ obd_conn' \in {"live", "dead"}
        /\ loops' = [loops EXCEPT ![i] = "raised"]
        /\ UNCHANGED <<app, files, sess, got>>
     \/ \* the link is gone: the connection is marked dead and answers null
        /\ IsConnected(obd_conn) /\ ~link
        /\ obd_conn' = "dead"
        /\ GuiIteration(i, AllNull)
        /\ UNCHANGED got
     \/ /\ ~IsConnected(obd_conn)
        /\ GuiIteration(i, AllNull)
        /\ UNCHANGED <<obd_conn, got>>
  /\ UNCHANGED <<NotGui, now, link, flips, ctl>>

NextGui ==
  \/ GuiConnect \/ GuiStartLogging \/ GuiStopLogging \/ GuiCloseApp
  \/ \E i \in 1..MaxCmds : GuiLoopTest(i) \/ GuiLoopTick(i)

(* ----------------------------- loger2-Ari.py --------------------------- *)
L2 == program = "loger2"

\* the values mock_data_mode computes from the clock: every parameter,
\* oil included, is an integer within its range
MockValues ==
  { [rpm |-> 800, speed |-> 20, coolant |-> 85, oil |-> 95],
    [rpm |-> 2800, speed |-> 60, coolant |-> 95, oil |-> 110] }

\* "if is_logging: log_data_point()": the obd_data just published is
\* appended as a data point
LogDataPoint(ts, d) ==
  IF is_logging THEN Append(logged_data, RowOf(ts, d)) ELSE logged_data

\* obd_data_thread, lines 67-70: without a connection the thread runs
\* mock_data_mode instead of the polling loop
DtEntry ==
  /\ L2 /\ dthread.pc = "entry"
  /\ dthread' = [dthread EXCEPT
                   !.pc = IF IsConnected(obd_conn) THEN "real" ELSE "mock"]
  /\ UNCHANGED <<NotL2, now, link, flips, got, obd_conn, files, ctl, sess,
                 obd_data, logged_data, is_logging>>

\* one iteration of mock_data_mode
MockTick ==
  /\ L2 /\ dthread.pc = "mock" /\ now < MaxTicks
  /\ now' = now + 1
  /\ \E m \in MockValues :
       /\ obd_data' = m @@ [connected |-> TRUE]
       /\ logged_data' = LogDataPoint(now + 1, obd_data')
  /\ UNCHANGED <<NotL2, link, flips, got, obd_conn, files, ctl, sess,
                 is_logging, dthread>>

\* one iteration of the polling loop of obd_data_thread, lines 86-131
DtTick ==
  /\ L2 /\ dthread.pc = "real" /\ now < MaxTicks
  /\ now' = now + 1
  /\ \/ /\ IsConnected(obd_conn) /\ link
        /\ \E r \in Responses :
             LET v == UpdateVals(dthread.last, r) IN
               /\ dthread' = [dthread EXCEPT !.last = v]
               /\ obd_data' = v @@ [connected |-> TRUE]
               /\ logged_data' = LogDataPoint(now + 1, obd_data')
               /\ got' = got \cup Valid(r)
        /\ UNCHANGED obd_conn
     \/ \* the link is gone: a query raises, or the connection is marked
        \* dead and answers null; the values of the tick are not published
        /\ IsConnected(obd_conn) /\ ~link
        /\ obd_conn' \in {"live", "dead"}
        /\ obd_data' = [obd_data EXCEPT !.connected = FALSE]
        /\ UNCHANGED <<dthread, logged_data, got>>
     \/ /\ ~IsConnected(obd_conn)
        /\ obd_data' = [obd_data EXCEPT !.connected = FALSE]
        /\ UNCHANGED <<dthread, logged_data, obd_conn, got>>
  /\ UNCHANGED <<NotL2, link, flips, files, ctl, sess, is_logging>>

\* POST /api/start_logging
StartLogging2 ==
  /\ L2 /\ ctl.n < MaxCmds
  /\ IF ~obd_data.connected
       THEN /\ ctl' = Refused("start", "rejected", "OBD not connected")
            /\ UNCHANGED is_logging
       ELSE /\ is_logging' = TRUE
            /\ ctl' = Cmd("start", "ok")
  /\ UNCHANGED <<NotL2, now, link, flips, got, obd_conn, files, sess,
                 obd_data, logged_data, dthread>>

\* POST /api/stop_logging
StopLogging2 ==
  /\ L2 /\ ctl.n < MaxCmds
  /\ is_logging' = FALSE
  /\ ctl' = [Cmd("stop", "ok") EXCEPT !.total = Len(logged_data)]
  /\ UNCHANGED <<NotL2, now, link, flips, got, obd_conn, files, sess,
                 obd_data, logged_data, dthread>>

\* POST /api/clear_data
ClearData2 ==
  /\ L2 /\ ctl.n < MaxCmds
  /\ logged_data' = <<>>
  /\ ctl' = Cmd("clear", "ok")
  /\ UNCHANGED <<NotL2, now, link, flips, got, obd_conn, files, sess,
                 obd_data, is_logging, dthread>>

NextL2 ==
  \/ DtEntry \/ MockTick \/ DtTick
  \/ StartLogging2 \/ StopLogging2 \/ ClearData2

(* ------------------- the pace of the loop: lastone.py, loger3.py ------- *)
\* LOG_INTERVAL, in integer units of time (a unit is 25 ms)
LOG_INTERVAL == 4

\* the longest a tick's body takes, the latest a sleep returns after its
\* time, and where the clock stops
MaxWork == 6
MaxLate == 1
MaxClock == 14

Timer0 ==
  [pc |-> "top", clock |-> 0, start |-> None, prev |-> None, fin |-> None,
   to_sleep |-> 0]

\* a variant that sleeps LOG_INTERVAL - elapsed without testing its sign; C28
\* must tell it from Slept
SleptUnguarded(elapsed) == LOG_INTERVAL - elapsed

\* to_sleep = LOG_INTERVAL - elapsed; if to_sleep > 0: time.sleep(to_sleep):
\* the time the loop asks to sleep
Slept(elapsed) ==
  IF LOG_INTERVAL - elapsed > 0 THEN LOG_INTERVAL - elapsed ELSE 0

NotTimer ==
  <<program, sync, link, flips, got, obd_conn, files, ctl, sess, now,
    varsL1, varsL3, varsGui, varsL2, varsLg>>

Paced == program \in {"lastone", "loger3"}

\* start = time.time() at the top of the loop; prev keeps the start of the
\* tick before
LoopTop ==
  /\ Paced /\ timer.pc = "top" /\ timer.clock < MaxClock
  /\ timer' = [timer EXCEPT !.pc = "body", !.prev = timer.start,
                            !.start = timer.clock]
  /\ UNCHANGED NotTimer

\* the body of the tick (reconnect, queries, publishing, logging, flush)
\* takes d units; fin is the time it ends
LoopBody ==
  /\ Paced /\ timer.pc = "body"
  /\ \E d \in 0..MaxWork :
       timer' = [timer EXCEPT !.pc = "sleep", !.clock = @ + d,
                              !.fin = timer.clock + d]
  /\ UNCHANGED NotTimer

\* elapsed = time.time() - start and the sleep for the remainder, which
\* returns at its time or late; loger3.py sleeps in _stop_event.wait(), which
\* returns early when the event is set, and the loop then ends
LoopSleep ==
  /\ Paced /\ timer.pc = "sleep"
  /\ LET elapsed  == timer.clock - timer.start
         to_sleep == Slept(elapsed)
     IN \/ \E late \in 0..MaxLate :
             timer' = [timer EXCEPT !.pc = "top", !.to_sleep = to_sleep,
                                    !.clock = @ + to_sleep + late]
        \/ /\ program = "loger3"
           /\ \E early \in 0..(to_sleep - 1) :
                timer' = [timer EXCEPT !.pc = "done", !.to_sleep = to_sleep,
                                       !.clock = @ + early]
  /\ UNCHANGED NotTimer

NextPace == LoopTop \/ LoopBody \/ LoopSleep

(* ------------------- state_lock and the joins: loger3.py --------------- *)
\* the requests handled and the ticks begun, at most
MaxReq == 3
MaxLoops == 2

\* the holder of state_lock: nobody, the request handler, or logger thread i
Free == 0
Handler == -1

Sync0 ==
  [lock |-> Free, cmd |-> "idle", thr |-> <<>>, event |-> FALSE,
   is_logging |-> FALSE, was_logging |-> FALSE, n |-> 0, ticks |-> 0]

Synced == program = "loger3"

NotSync ==
  <<program, timer, link, flips, got, obd_conn, files, ctl, sess, now,
    varsL1, varsL3, varsGui, varsL2, varsLg>>

\* the `with state_lock:` sections of the handlers, each before it is
\* entered (the handler waits for the lock) and inside it: api_start_logging
\* line 218, api_stop_logging lines 240 and 250, api_clear_data lines 261,
\* 267 and 271
CmdWaiting == {"start_w", "stop_w", "stop_read_w", "clear_w", "clear_off_w",
               "clear_reset_w"}

CmdInside(pc) ==
  CASE pc = "start_w" -> "start_h"
    [] pc = "stop_w" -> "stop_h"
    [] pc = "stop_read_w" -> "stop_read_h"
    [] pc = "clear_w" -> "clear_h"
    [] pc = "clear_off_w" -> "clear_off_h"
    [] pc = "clear_reset_w" -> "clear_reset_h"

\* a variant of api_stop_logging that sets the event and joins inside its
\* first `with state_lock:`; C36 must tell it from LockAfter
LockKept(pc) == IF pc = "stop_h" THEN Handler ELSE Free

\* the lock when a handler leaves a `with state_lock:` section
LockAfter(pc) == Free

\* the sections of logger_thread and init_obd: init_obd lines 52-53, the
\* copy of last_values line 96, the except handler line 107, the write-back
\* line 112, the count line 158
ThrWaiting == {"init_w", "copy_w", "except_w", "write_w", "count_w"}

ThrInside(pc) ==
  CASE pc = "init_w" -> "init_h"
    [] pc = "copy_w" -> "copy_h"
    [] pc = "except_w" -> "except_h"
    [] pc = "write_w" -> "write_h"
    [] pc = "count_w" -> "count_h"

ThrAfter(pc) ==
  CASE pc = "init_h" -> "copy_w"
    [] pc = "copy_h" -> "query"
    [] pc = "except_h" -> "write_w"
    [] pc = "write_h" -> "count_w"
    [] pc = "count_h" -> "flush"

\* a request arrives: POST /api/start_logging, stop_logging or clear_data
CmdIssue ==
  /\ Synced /\ sync.cmd = "idle" /\ sync.n < MaxReq
  /\ \E c \in {"start_w", "stop_w", "clear_w"} :
       sync' = [sync EXCEPT !.cmd = c, !.n = @ + 1]
  /\ UNCHANGED NotSync

\* the handler enters a `with state_lock:` section
CmdAcquire ==
  /\ Synced /\ sync.cmd \in CmdWaiting /\ sync.lock = Free
  /\ sync' = [sync EXCEPT !.lock = Handler, !.cmd = CmdInside(sync.cmd)]
  /\ UNCHANGED NotSync

\* the handler does what the section does and leaves it
CmdRelease ==
  /\ Synced /\ sync.lock = Handler
  /\ LET pc == sync.cmd
         s  == [sync EXCEPT !.lock = LockAfter(pc)]
     IN sync' =
          CASE pc = "start_h" ->
                 IF sync.is_logging THEN [s EXCEPT !.cmd = "idle"]
                 ELSE [s EXCEPT !.is_logging = TRUE, !.cmd = "start_thread"]
            [] pc = "stop_h" ->
                 IF ~sync.is_logging THEN [s EXCEPT !.cmd = "idle"]
                 ELSE [s EXCEPT !.is_logging = FALSE, !.cmd = "stop_set"]
            [] pc = "stop_read_h" -> [s EXCEPT !.cmd = "idle"]
            [] pc = "clear_h" ->
                 [s EXCEPT !.was_logging = sync.is_logging,
                           !.cmd = IF sync.is_logging THEN "clear_set"
                                   ELSE "clear_reset_w"]
            [] pc = "clear_off_h" ->
                 [s EXCEPT !.is_logging = FALSE, !.cmd = "clear_reset_w"]
            [] pc = "clear_reset_h" -> [s EXCEPT !.cmd = "clear_remove"]
            [] OTHER -> s
  /\ sync.cmd \in {"start_h", "stop_h", "stop_read_h", "clear_h",
                   "clear_off_h", "clear_reset_h"}
  /\ UNCHANGED NotSync

\* _stop_event.set(), lines 246 and 264
CmdSet ==
  /\ Synced /\ sync.cmd \in {"stop_set", "clear_set"}
  /\ sync' = [sync EXCEPT !.event = TRUE,
                          !.cmd = IF sync.cmd = "stop_set" THEN "stop_join"
                                  ELSE "clear_join"]
  /\ UNCHANGED NotSync

\* _log_thread.join(timeout=5): the thread has ended, or the time is up
CmdJoin ==
  /\ Synced /\ sync.cmd \in {"stop_join", "clear_join"}
  /\ sync' = [sync EXCEPT !.cmd = IF sync.cmd = "stop_join" THEN "stop_read_w"
                                  ELSE "clear_off_w"]
  /\ UNCHANGED NotSync

\* the end of a handler outside the lock: api_start_logging clears the event
\* and starts a thread (lines 231-233), api_clear_data removes the file and
\* clears the event (lines 279-285)
CmdEnd ==
  /\ Synced /\ sync.cmd \in {"start_thread", "clear_remove"}
  /\ sync' = [sync EXCEPT !.event = FALSE, !.cmd = "idle",
                          !.thr = IF sync.cmd = "start_thread"
                                    THEN Append(@, "test") ELSE @]
  /\ UNCHANGED NotSync

\* while not _stop_event.is_set(), and the connection test of line 88
ThrTest(i) ==
  /\ Synced /\ i \in DOMAIN sync.thr /\ sync.thr[i] = "test"
  /\ IF sync.event
       THEN sync' = [sync EXCEPT !.thr[i] = "final"]
       ELSE /\ sync.ticks < MaxLoops
            /\ \E pc \in {"init_w", "copy_w"} :
                 sync' = [sync EXCEPT !.thr[i] = pc, !.ticks = @ + 1]
  /\ UNCHANGED NotSync

\* the thread enters a `with state_lock:` section
ThrAcquire(i) ==
  /\ Synced /\ i \in DOMAIN sync.thr /\ sync.thr[i] \in ThrWaiting
  /\ sync.lock = Free
  /\ sync' = [sync EXCEPT !.lock = i, !.thr[i] = ThrInside(sync.thr[i])]
  /\ UNCHANGED NotSync

\* the thread leaves the section
ThrRelease(i) ==
  /\ Synced /\ i \in DOMAIN sync.thr /\ sync.lock = i
  /\ sync' = [sync EXCEPT !.lock = Free, !.thr[i] = ThrAfter(sync.thr[i])]
  /\ UNCHANGED NotSync

\* the four queries, outside the lock: they answer, or one raises
ThrQuery(i) ==
  /\ Synced /\ i \in DOMAIN sync.thr /\ sync.thr[i] = "query"
  /\ \E pc \in {"write_w", "except_w"} : sync' = [sync EXCEPT !.thr[i] = pc]
  /\ UNCHANGED NotSync

\* the flush and _stop_event.wait(to_sleep), lines 161-176, and the final
\* flush, lines 178-185, all outside the lock
ThrFlush(i) ==
  /\ Synced /\ i \in DOMAIN sync.thr /\ sync.thr[i] \in {"flush", "final"}
  /\ sync' = [sync EXCEPT !.thr[i] = IF sync.thr[i] = "flush" THEN "test"
                                     ELSE "done"]
  /\ UNCHANGED NotSync

NextSync ==
  \/ CmdIssue \/ CmdAcquire \/ CmdRelease \/ CmdSet \/ CmdJoin \/ CmdEnd
  \/ \E i \in 1..MaxReq :
       ThrTest(i) \/ ThrAcquire(i) \/ ThrRelease(i) \/ ThrQuery(i) \/ ThrFlush(i)

(* -------------------------- loger.py, loger1.py ------------------------ *)
\* both exit at once unless the adapter is connected at start
Lg == program = "loger"
Lg1 == program = "loger1"

\* loger.py watches three parameters; "temp" is the coolant temperature
Watched == {"rpm", "speed", "temp"}

\* the magnitudes a watch callback is called with
CbResponses == {NULL, 3201, 3282}

\* seconds after which loger.py calls a value old, in ticks of the clock
STALE == 2

\* a variant of a callback that stores the value and leaves the timestamp;
\* C37 must tell it from Stored
StoredValueOnly(l, p, resp) ==
  IF resp = NULL THEN l ELSE [l EXCEPT ![p].val = resp]

\* cb_rpm, cb_speed, cb_temp: a null response is ignored, a valid one stored
\* with the time under the lock
Stored(l, p, resp) ==
  IF resp = NULL THEN l ELSE [l EXCEPT ![p] = [val |-> resp, t |-> now]]

Callback(p) ==
  /\ Lg /\ p \in Watched /\ now >= 1
  /\ \E resp \in CbResponses :
       /\ latest' = Stored(latest, p, resp)
       /\ got' = IF resp # NULL THEN got \cup {p} ELSE got
  /\ UNCHANGED <<NotLg, now, link, flips, obd_conn, files, ctl, sess,
                 shown, last1>>

\* time passes
Clock ==
  /\ Lg /\ now < MaxTicks + STALE
  /\ now' = now + 1
  /\ UNCHANGED <<program, timer, sync, link, flips, got, obd_conn, files, ctl,
                 sess, varsL1, varsL3, varsGui, varsL2, varsLg>>

\* a variant of the printer that shows "N/A" for a value that is too old; C38
\* must tell it from Display
DisplayFresh(e) ==
  LET age == IF e.t # 0 THEN now - e.t ELSE 999 IN
    IF age < STALE /\ e.val # None THEN e.val ELSE NA

\* the value the printer shows for a cache entry, loger.py lines 69 and 76
Display(e) ==
  LET age == IF e.t # 0 THEN now - e.t ELSE 999 IN
    IF age < STALE THEN e.val
    ELSE IF e.val # None THEN e.val ELSE NA

\* one pass of the print loop
Printer ==
  /\ Lg
  /\ shown' = [p \in Watched |-> Display(latest[p])]
  /\ UNCHANGED <<NotLg, now, link, flips, got, obd_conn, files, ctl, sess,
                 latest, last1>>

\* loger1.py: one iteration of the loop, the magnitudes kept as given
Loop1 ==
  /\ Lg1 /\ now < MaxTicks
  /\ now' = now + 1
  /\ \E r \in (IF link THEN Responses ELSE {AllNull}) :
       /\ last1' = UpdateVals3(last1, r)
       /\ shown' = last1'
       /\ got' = got \cup Valid(r)
  /\ UNCHANGED <<NotLg, link, flips, obd_conn, files, ctl, sess, latest>>

NextLg == (\E p \in Watched : Callback(p)) \/ Clock \/ Printer \/ Loop1

(* ------------------------------ the system ----------------------------- *)
Programs ==
  {"lastone", "loger3", "complete", "finalboss", "loger2", "loger", "loger1"}

Ctl0 ==
  [n |-> 0, last |-> "none", outcome |-> "none", busy |-> "none", total |-> 0,
   reason |-> "none", exited |-> FALSE, again |-> FALSE, ioerr |-> FALSE,
   ioerrs |-> 0, at |-> -1, mark |-> 0]

STATE0 ==
  [connected |-> FALSE, is_logging |-> FALSE, total_records |-> 0,
   last_values |-> InitialValues, csv_path |-> None]

Poll0 ==
  [pc |-> "start", tick |-> 0, raised |-> FALSE, reconn |-> FALSE,
   is_logging |-> FALSE,
   last_vals |-> InitialValues, csv_path |-> None,
   buffer_rows |-> <<>>, rows_since_flush |-> 0]

App0 ==
  [running |-> FALSE, csv_file |-> None, writer |-> None, open |-> {},
   closes |-> 0, val |-> InitialValues, labels |-> InitialValues]

ObdData0 == InitialValues @@ [connected |-> FALSE]

Latest0 == [p \in Watched |-> [val |-> None, t |-> 0]]

\* the programs that connect before anything else runs: loger3.py calls
\* init_obd() at import, loger2-Ari.py connect_obd() in main; loger.py and
\* loger1.py connect and exit unless connected
ConnectsFirst == {"loger3", "loger2", "loger", "loger1"}

\* the state a run of one of the programs ps starts in
InitOf(ps) ==
  /\ program \in ps
  /\ link \in BOOLEAN
  /\ program \in {"loger", "loger1"} => link
  /\ flips = 0
  /\ files = <<>>
  /\ ctl = Ctl0
  /\ sess = <<>>
  /\ now = 0
  /\ got = {}
  /\ STATE_ = STATE0
  /\ poll = Poll0
  /\ stop_event = FALSE
  /\ log_thread = 0
  /\ lt = <<>>
  /\ app = App0
  /\ loops = <<>>
  /\ logged_data = <<>>
  /\ is_logging = FALSE
  /\ dthread = [pc |-> "entry", last |-> InitialValues, reconn |-> FALSE]
  /\ latest = Latest0
  /\ shown = IF program = "loger" THEN [p \in Watched |-> None] ELSE InitialValues
  /\ last1 = InitialValues
  /\ timer = Timer0
  /\ sync = Sync0
  /\ IF program \in ConnectsFirst
       THEN /\ obd_conn = OBD
            /\ state = [STATE0 EXCEPT !.connected = IsConnected(OBD)]
            /\ obd_data = [ObdData0 EXCEPT !.connected = IsConnected(OBD)]
       ELSE /\ obd_conn = "None"
            /\ state = STATE0
            /\ obd_data = ObdData0

Init == InitOf(Programs)

Next == LinkFlip \/ NextL1 \/ NextL3 \/ NextGui \/ NextL2 \/ NextLg

Spec == Init /\ [][Next]_vars

\* the pace of the loop alone, the durations drawn from 0..MaxWork
InitPace == InitOf({"lastone", "loger3"})
SpecPace == InitPace /\ [][NextPace]_vars

\* the locking of loger3.py alone
InitSync == InitOf({"loger3"})
SpecSync == InitSync /\ [][NextSync]_vars

\* one program at a time
InitL1 == InitOf({"lastone"})
SpecL1 == InitL1 /\ [][LinkFlip \/ NextL1]_vars
InitL3 == InitOf({"loger3"})
SpecL3 == InitL3 /\ [][LinkFlip \/ NextL3]_vars
InitGui == InitOf({"complete", "finalboss"})
SpecGui == InitGui /\ [][LinkFlip \/ NextGui]_vars
InitL2 == InitOf({"loger2"})
SpecL2 == InitL2 /\ [][LinkFlip \/ NextL2]_vars
InitLog == InitOf({"lastone", "loger3"})
SpecLog == InitLog /\ [][LinkFlip \/ NextL1 \/ NextL3]_vars
\* the programs of C23 with an adapter that may come back after a loss
InitBack == InitOf({"lastone", "loger2", "complete", "finalboss"})
SpecBack ==
  InitBack /\ [][LinkFlip \/ LinkBack \/ NextL1 \/ NextL2 \/ NextGui]_vars
InitLg == InitOf({"loger", "loger1"})
SpecLg == InitLg /\ [][NextLg]_vars

(* --------------------------- the read surface -------------------------- *)
\* the connectivity flag start_logging looks at
ConnectedFlag ==
  CASE program = "lastone" -> STATE_.connected
    [] program = "loger3" -> state.connected
    [] program = "loger2" -> obd_data.connected
    [] OTHER -> IsConnected(obd_conn)

\* the logging flag
LoggingFlag ==
  CASE program = "lastone" -> STATE_.is_logging
    [] program = "loger3" -> state.is_logging
    [] program = "loger2" -> is_logging
    [] OTHER -> app.running

\* the rows the logging thread holds unwritten
Buffer ==
  CASE program = "lastone" -> poll.buffer_rows
    [] program = "loger3" /\ log_thread # 0 -> lt[log_thread].buffer_rows
    [] OTHER -> <<>>

\* the sink of the session
SinkPath ==
  CASE program = "lastone" -> STATE_.csv_path
    [] program = "loger3" -> state.csv_path
    [] OTHER -> app.writer

\* the data rows the sink of the session holds
SinkRows == IF SinkPath = None THEN <<>> ELSE DataRows(files[SinkPath])

\* the values of parameter p in the rows logged so far
RowValues(p) ==
  {sess[k][p] : k \in 1..Len(sess)}
    \cup UNION {{files[f][k][p] : k \in 1..Len(files[f])} \ {HDR} :
                  f \in 1..Len(files)}

\* the values of parameter p a reader of the program sees: the state behind
\* the display or the API, and the rows logged
Published(p) ==
  CASE program = "lastone" -> {STATE_.last_values[p]} \cup RowValues(p)
    [] program = "loger3" -> {state.last_values[p]} \cup RowValues(p)
    [] program \in {"complete", "finalboss"} -> {app.labels[p]} \cup RowValues(p)
    [] program = "loger2" ->
         {obd_data[p]} \cup {logged_data[k][p] : k \in 1..Len(logged_data)}
    [] program = "loger1" -> {shown[p]}
    [] OTHER -> {}

(* ------------------------------ properties ----------------------------- *)
\* a step in which a start command is issued
StartIssued == ctl'.n # ctl.n /\ ctl'.last = "start"

\* a step in which a stop command returns to its caller
StopReturns ==
  \/ ctl'.n # ctl.n /\ ctl'.last = "stop" /\ ctl'.outcome = "ok"
  \/ ctl.busy = "stop" /\ ctl'.busy = "none"

\* a step in which a stop or a close follows a stop, no command in between
SecondStop == ctl'.n # ctl.n /\ ctl'.again

\* the session state and the sinks
Session ==
  <<files, sess, STATE_, poll, state, stop_event, log_thread, lt, app, loops,
    obd_data, logged_data, is_logging>>

\* the integers a valid reading of p is shown and logged as
ValidInts(p) == {IntOf(r[p]) : r \in {x \in Responses : x[p] # NULL}}

\* what a parameter reads before its first valid reading
Cold(p) == IF p = "oil" THEN NA ELSE 0

\* C1: a displayed value changes only to a valid reading: after every step
\* each parameter shows what it showed before or the integer of a valid
\* reading, so an absent reading never shows as a change (no zero flash).
C1_AbsentReadingKeepsValue ==
  [][\A p \in Params :
       app'.labels[p] = app.labels[p] \/ app'.labels[p] \in ValidInts(p)]_vars

\* C2: a start command issued while the connectivity flag is false and no
\* session is logging is rejected, and the logging flag stays false.
C2_DisconnectedStartRejected ==
  [][(StartIssued /\ ~ConnectedFlag /\ ~LoggingFlag) =>
       (ctl'.outcome = "rejected" /\ ~LoggingFlag')]_vars

\* C3: while the adapter has been unreachable since the program started,
\* every start command is rejected.
C3_UnreachableStartRejected ==
  [][(StartIssued /\ ~link /\ flips = 0) => ctl'.outcome = "rejected"]_vars

\* C4: when a stop command returns and no write has failed, the buffer is
\* empty and every row appended during the session is in the sink.
C4_StopLeavesNothingBuffered ==
  [][(StopReturns /\ ~ctl'.ioerr) =>
       /\ Buffer' = <<>>
       /\ \A k \in 1..Len(sess') :
            \E j \in 1..Len(SinkRows') : SinkRows'[j] = sess'[k]]_vars

\* C5: when a stop command returns for a session that was started and no
\* write has failed, the data rows of the sink are exactly the rows appended
\* during the session, once each and in order.
C5_SinkHoldsSessionRows ==
  [][(StopReturns /\ ~ctl'.ioerr /\ SinkPath # None) => SinkRows' = sess']_vars

\* C6: without write failures, the sink of a logging session grows only by a
\* flush at the tick the buffer reaches CSV_BUFFER_FLUSH rows, which writes
\* that many rows and empties the buffer; and a stop command has flushed the
\* remainder, so the sink then holds as many rows as were counted.
C6_FlushAtThresholdAndStop ==
  [][~ctl'.ioerr =>
       /\ (LoggingFlag /\ SinkPath' = SinkPath /\ SinkRows' # SinkRows) =>
            /\ Len(Buffer) + 1 = CSV_BUFFER_FLUSH
            /\ Len(SinkRows') = Len(SinkRows) + CSV_BUFFER_FLUSH
            /\ Buffer' = <<>>
       /\ (StopReturns /\ SinkPath # None) =>
            Len(SinkRows') = STATE_'.total_records]_vars

\* C7: a tick in which a query raised appends no row and ends with the
\* connectivity flag false, and the tick after it starts with a reconnect.
C7_FailedTickLogsNothing ==
  [][\A i \in 1..Len(lt) :
       /\ (lt[i].pc = "query" /\ lt'[i].pc = "loop" /\ lt'[i].raised) =>
            (sess' = sess /\ ~state'.connected)
       /\ (lt[i].pc = "loop" /\ lt[i].raised /\ lt'[i].pc = "query") =>
            lt'[i].reconn]_vars

C10_RejectedStartChangesNothing ==
  [][(StartIssued /\ ctl'.outcome = "rejected") => UNCHANGED Session]_vars

\* C10: a start command was rejected while disconnected
C10_StartRejected ==
  /\ program = "lastone" /\ ctl.last = "start" /\ ctl.outcome = "rejected"
  /\ ~STATE_.connected /\ ~STATE_.is_logging /\ files = <<>>

\* C11: a start command that starts no session ends with an explicit error:
\* it raises, or it tells its caller a reason; it never just returns.
C11_FailedStartGivesReason ==
  [][(StartIssued /\ ctl'.outcome # "ok") =>
       (ctl'.outcome = "raised" \/ ctl'.reason # "none")]_vars

\* how often the row r occurs in rows
Count(rows, r) == Cardinality({k \in DOMAIN rows : rows[k] = r})

\* a logger whose locals go from b to a has buffered the row of its tick:
\* either every buffered row is still buffered, in order, with the loop running
\* and the flush counter not reset (so the next logged tick flushes again), or
\* the buffer was written and each of its rows is in the sink at path once
RetainedOrWritten(b, a, path) ==
  LET buf == Append(b.buffer_rows, sess'[Len(sess')]) IN
    \/ /\ a.buffer_rows = buf
       /\ a.rows_since_flush = b.rows_since_flush + 1
       /\ a.pc \in {"start", "loop"}
    \/ /\ a.buffer_rows = <<>>
       /\ a.rows_since_flush = 0
       /\ path # None
       /\ \A k \in DOMAIN buf : Count(files'[path], buf[k]) = 1

\* C12: a flush that fails leaves the loop running and every buffered row
\* buffered in order, to be flushed again at the next trigger; when a flush
\* succeeds, the sink holds every row that was buffered exactly once.
C12_FailedFlushRetried ==
  [][/\ (L1 /\ poll.pc = "log" /\ poll'.pc = "start" /\ sess' # sess) =>
          RetainedOrWritten(poll, poll', poll.csv_path)
     /\ \A i \in DOMAIN lt :
          (L3 /\ lt[i].pc = "query" /\ lt'[i].pc # "query") =>
            RetainedOrWritten(lt[i], lt'[i], state.csv_path)]_vars

\* the maximum the buffer is held to.  The programs name none; any maximum
\* below the number of ticks of a run is a case of the claim.
MaxBuffer == MaxTicks - 1

\* C13: no logger ever holds more than the maximum number of rows in its
\* buffer (under repeated flush failures the oldest rows make room).
C13_BufferBounded ==
  /\ Len(poll.buffer_rows) <= MaxBuffer
  /\ \A i \in DOMAIN lt : Len(lt[i].buffer_rows) <= MaxBuffer

\* the time ceiling of a flush, in ticks.  The programs name none; any
\* ceiling shorter than a run is a case of the claim.
FlushCeiling == MaxTicks - 2

\* C14: while the first session runs (no stop command, no I/O error), no row
\* is still buffered more than the time ceiling after the tick that buffered
\* it, whether or not the row count has reached the threshold.
C14_BufferedRowFlushedInTime ==
  (L1 /\ STATE_.is_logging /\ Len(files) = 1 /\ ctl.ioerrs = 0
      /\ poll.pc = "start") =>
    \A k \in DOMAIN poll.buffer_rows :
      poll.tick - poll.buffer_rows[k].ts <= FlushCeiling

\* C15: once the shutdown of lastone.py has completed, is_logging is false, the
\* transport is closed, and, no write having failed, no row is left in the
\* buffer: what was buffered at shutdown is in the sink.
C15_ShutdownLeavesNothingBehind ==
  (program = "lastone" /\ ctl.exited /\ ctl.ioerrs = 0) =>
    /\ ~STATE_.is_logging
    /\ ~IsConnected(obd_conn)
    /\ poll.buffer_rows = <<>>

\* what gui_update_loop reads under STATE_LOCK (lastone.py lines 239-243)
Exposed ==
  <<STATE_.connected, STATE_.is_logging, STATE_.last_values,
    STATE_.total_records>>

\* C16: the exposed state changes only when a tick completes: a step of the
\* poller inside a tick publishes nothing, so that no read finds the values
\* or connectivity of one tick beside the record count of another.
C16_PublishedAtTickEnd ==
  [][(L1 /\ poll' # poll /\ poll'.pc # "start") => Exposed' = Exposed]_vars

\* C17: the record count that api_stop_logging returns is the number of data
\* rows in the sink of the session it stopped, no write having failed.
C17_StopCountsSinkRows ==
  [][(L3 /\ ctl.busy = "stop" /\ ctl'.busy = "none"
         /\ ~ctl'.ioerr /\ ctl'.ioerrs = 0) =>
       ctl'.total = Len(SinkRows')]_vars

\* C19: only the loop that the latest start command launched begins a tick:
\* the loop of an earlier session never runs alongside the new one.
C19_OneLoopRuns ==
  [][/\ \A i \in DOMAIN loops :
          (Gui /\ loops[i] = "loop" /\ loops'[i] = "query") => i = Len(loops)
     /\ \A i \in DOMAIN lt :
          (L3 /\ lt[i].pc = "loop" /\ lt'[i].pc = "query") => i = Len(lt)]_vars

\* C18: once a stop command has been accepted and until the next session
\* starts, at most one more row is appended, and only by a tick that had
\* started when the command was issued (ctl.at is the clock at the command,
\* ctl.mark the number of rows appended before it).
C18_StopEndsAppending ==
  ctl.at >= 0 =>
    /\ Len(sess) <= ctl.mark + 1
    /\ \A k \in (ctl.mark + 1)..Len(sess) : sess[k].ts <= ctl.at

C21_RowCarriesPublishedValues ==
  [][(L1 /\ poll.pc = "log" /\ poll'.pc = "start" /\ sess' # sess) =>
       LET row == sess'[Len(sess')] IN
         /\ row.ts = poll.tick
         /\ \A p \in Params : row[p] = STATE_.last_values[p]]_vars

\* a row holding a reading has been logged after a command ran inside the tick
C21_RowLoggedAcrossCommand ==
  /\ L1 /\ sess # <<>> /\ poll.pc = "start"
  /\ \E p \in Params : sess[Len(sess)][p] # InitialValues[p]
  /\ ctl.last = "stop" /\ ctl.at = sess[Len(sess)].ts

\* C22: a tick that finds the connection not connected attempts a reconnect
\* before its queries, and a tick whose connection is still not connected
\* after that queries nothing and ends normally.
C22_ReconnectBeforeQuery ==
  [][/\ (L1 /\ poll.pc = "start" /\ poll'.pc = "query"
            /\ ~IsConnected(obd_conn)) => poll'.reconn
     /\ (L1 /\ poll.pc = "query" /\ poll'.pc = "log"
            /\ ~IsConnected(obd_conn)) => (got' = got /\ ~poll'.raised)
     /\ \A i \in DOMAIN lt :
          /\ (L3 /\ lt[i].pc = "loop" /\ lt'[i].pc = "query"
                 /\ ~IsConnected(obd_conn)) => lt'[i].reconn
          /\ (L3 /\ lt[i].pc = "query" /\ lt'[i].pc = "loop"
                 /\ ~IsConnected(obd_conn)) => (got' = got /\ ~lt'[i].raised)
     /\ (L2 /\ dthread.pc = "real" /\ now' # now /\ ~IsConnected(obd_conn)) =>
          (dthread'.reconn /\ got' = got)]_vars

\* C23: with the adapter reachable, a tick connects and reports it: the tick
\* of lastone.py starts with a live connection and the flag true, the tick of
\* loger2-Ari.py ends with connected true, and the iteration of the dashboard
\* loop ends with a live connection, without any command.
C23_ReachableTickConnects ==
  [][/\ (L1 /\ poll.pc = "start" /\ poll'.pc = "query" /\ link) =>
          (IsConnected(obd_conn') /\ STATE_'.connected)
     /\ (L2 /\ dthread.pc = "real" /\ now' # now /\ link) =>
          obd_data'.connected
     /\ \A i \in DOMAIN loops :
          (Gui /\ loops[i] = "query" /\ loops'[i] # "query" /\ link) =>
            IsConnected(obd_conn')]_vars

\* C24: a query that fails ends no loop and reaches no command: the tick of
\* lastone.py goes on to its next step with the command record and the
\* session fields untouched and the connectivity flag false, and no dashboard
\* loop is ended by an exception of a query.
C24_FailuresAbsorbed ==
  [][/\ (L1 /\ poll.pc = "query" /\ poll'.raised) =>
          /\ poll'.pc = "log"
          /\ ctl' = ctl
          /\ STATE_' = [STATE_ EXCEPT !.connected = FALSE]
     /\ \A i \in DOMAIN loops : (Gui /\ loops[i] = "query") => loops'[i] # "raised"]_vars

\* a step of a polling thread: of the poller of lastone.py, or of a logger
\* thread of loger3.py
PollerStep ==
  \/ L1 /\ poll' # poll
  \/ L3 /\ Len(lt') = Len(lt) /\ lt' # lt

\* the session fields: is_logging, the destination path, the record count
SessionFields ==
  IF program = "lastone"
    THEN <<STATE_.is_logging, STATE_.csv_path, STATE_.total_records>>
    ELSE <<state.is_logging, state.csv_path, state.total_records>>

\* C25 (as stated): no step of a polling thread changes is_logging, the
\* destination path or the record count.
C25_PollerLeavesSessionFields ==
  [][PollerStep => SessionFields' = SessionFields]_vars

\* C25 (as the programs behave): a step of a polling thread leaves is_logging
\* and the destination path alone and changes the record count only by
\* adding one for the row it appends; every other change of the three fields
\* is made by a step of a command.
C25_PollerOnlyCounts ==
  [][/\ PollerStep =>
          /\ SessionFields'[1] = SessionFields[1]
          /\ SessionFields'[2] = SessionFields[2]
          /\ \/ SessionFields'[3] = SessionFields[3] /\ sess' = sess
             \/ /\ SessionFields'[3] = SessionFields[3] + 1
                /\ Len(sess') = Len(sess) + 1
     /\ (SessionFields' # SessionFields /\ ~PollerStep) => ctl' # ctl]_vars

\* a polling thread has counted a row of a running session
C25_PollerCounted ==
  /\ program \in {"lastone", "loger3"}
  /\ SessionFields[1] /\ SessionFields[3] > 0 /\ Len(sess) = SessionFields[3]

\* C26: the cached values, the published connectivity flag and the logger's
\* buffer are written by the polling thread only: a step of a control command
\* leaves all of them as they were.
C26_OnlyPollerWrites ==
  [][(ctl'.n # ctl.n) =>
       /\ L1 => /\ STATE_'.last_values = STATE_.last_values
                /\ STATE_'.connected = STATE_.connected
                /\ poll'.buffer_rows = poll.buffer_rows
       /\ L2 => /\ obd_data' = obd_data
                /\ logged_data' = logged_data]_vars

\* rows in strictly increasing tick order
Increasing(rows) ==
  \A j, k \in DOMAIN rows : j < k => rows[j].ts < rows[k].ts

\* C27: the data rows of every sink are in strictly increasing tick order,
\* whatever the interleaving of start, stop and the logging threads.
C27_SinkRowsInTickOrder ==
  L3 => \A path \in DOMAIN files : Increasing(DataRows(files[path]))

\* C28: the loop sleeps max(0, LOG_INTERVAL - elapsed) at the end of a tick,
\* so a tick starts no less than LOG_INTERVAL after the tick before started,
\* and not before the tick before has finished.
C28_TicksAnIntervalApart ==
  /\ (Paced /\ timer.pc \in {"top", "done"} /\ timer.start # None) =>
       LET elapsed == timer.fin - timer.start IN
         timer.to_sleep = IF LOG_INTERVAL > elapsed THEN LOG_INTERVAL - elapsed
                                                   ELSE 0
  /\ (Paced /\ timer.pc = "body" /\ timer.prev # None) =>
       /\ timer.start - timer.prev >= LOG_INTERVAL
       /\ timer.start >= timer.fin

\* a tick overran the interval, nothing was slept, and the next tick has
\* started at the time the overrunning one finished
C28_OverrunStartsNextAtOnce ==
  /\ Paced /\ timer.pc = "body" /\ timer.prev # None
  /\ timer.fin - timer.prev > LOG_INTERVAL
  /\ timer.to_sleep = 0 /\ timer.start = timer.fin

\* the header is the first row of a sink and no other row of it
HeaderFirstOnce(f) ==
  f # <<>> => /\ f[1] = HeaderRow
              /\ \A k \in 2..Len(f) : f[k].ts # HDR

\* C29: every sink a start command created begins with the header row, and
\* holds it once, before any data row; a start command that cannot create
\* its sink fails, creates nothing and leaves is_logging as it was, false.
C29_HeaderFirstAndOnce ==
  [][/\ \A path \in DOMAIN files' : HeaderFirstOnce(files'[path])
     /\ (ctl'.n # ctl.n /\ ctl'.last = "start" /\ ctl'.outcome = "ok") =>
          /\ Len(files') = Len(files) + 1
          /\ files'[Len(files')] = <<HeaderRow>>
     /\ (ctl'.n # ctl.n /\ ctl'.last = "start" /\ ctl'.outcome = "raised") =>
          /\ files' = files
          /\ SessionFields' = SessionFields
          /\ ~SessionFields[1] => ~SessionFields'[1]]_vars

\* a sink holds its header and, after it, the flushed rows of its session
C29_SinkWithHeaderAndRows ==
  /\ program \in {"lastone", "loger3"}
  /\ \E path \in DOMAIN files :
       /\ Len(files[path]) >= 3
       /\ files[path][1] = HeaderRow
       /\ DataRows(files[path]) = SubSeq(files[path], 2, Len(files[path]))

\* C30: every data row in the file of the current session was recorded by a
\* tick of that session: a row that was still buffered when an earlier
\* session stopped is never written into the file of a later one.
C30_SinkHoldsOwnSessionOnly ==
  (program = "lastone" /\ STATE_.csv_path # None) =>
    LET f == DataRows(files[STATE_.csv_path]) IN
      \A k \in DOMAIN f : \E j \in DOMAIN sess : sess[j] = f[k]

\* C31: an iteration of logging_loop never writes to or flushes a file that
\* stop_logging has closed, however the two interleave.
C31_NoWriteToClosedSink ==
  [][\A i \in DOMAIN loops :
       (Gui /\ loops[i] = "query" /\ loops'[i] # "query") =>
         /\ loops'[i] # "crashed"
         /\ sess' # sess => (app.writer \in app.open /\ app.csv_file # None)]_vars

\* C32: in every state of a session the record count is the number of data
\* rows in the session's sink plus the number of rows in the buffer.
C32_CountIsSinkPlusBuffer ==
  (program \in {"lastone", "loger3"} /\ SessionFields[1]) =>
    SessionFields[3] = Len(SinkRows) + Len(Buffer)

\* the record count a client is told: STATE["total_records"],
\* state["total_records"], len(logged_data)
RecordCount ==
  CASE program = "lastone" -> STATE_.total_records
    [] program = "loger3" -> state.total_records
    [] OTHER -> Len(logged_data)

\* the rows a tick has appended so far, the rows of loger2-Ari.py being the
\* logged data points
Appended == IF program = "loger2" THEN Len(logged_data) ELSE Len(sess)

\* C33: right after a successful start command the record count is 0; from
\* then on a step changes it only by adding one, in the tick that appends a
\* row, so records of an earlier session are never counted in the new one.
C33_CountStartsAtZero ==
  [][(program \in {"lastone", "loger3", "loger2"}) =>
       /\ (StartIssued /\ ctl'.outcome = "ok") => RecordCount' = 0
       /\ (ctl'.n = ctl.n /\ ctl'.busy = ctl.busy /\ RecordCount' # RecordCount) =>
            /\ RecordCount' = RecordCount + 1
            /\ Appended' = Appended + 1]_vars

\* C34: in a session, a step of the polling thread taken while the
\* connectivity flag is false, and leaving it false, appends no row and
\* leaves the record count, is_logging and the destination path as they are.
C34_NothingLoggedWhileDisconnected ==
  [][(PollerStep /\ SessionFields[1] /\ ~ConnectedFlag /\ ~ConnectedFlag') =>
       /\ sess' = sess
       /\ SessionFields' = SessionFields]_vars

\* clear_data has returned and no command has been issued since
ClearReturned == ctl.last = "clear" /\ ctl.busy = "none"

\* C35: once clear_data has returned and until the next command, is_logging
\* is false, the destination path is empty and the record count is 0, and no
\* step writes a file: no logging thread of the cleared session counts or
\* writes afterwards, even when the join on it timed out.
C35_ClearedStaysCleared ==
  [][(program \in {"loger3", "loger2"} /\ ClearReturned') =>
       /\ ~LoggingFlag'
       /\ RecordCount' = 0
       /\ program = "loger3" => state'.csv_path = None
       /\ ClearReturned => files' = files]_vars

\* C36: a handler that waits for the logging thread does not hold
\* state_lock; whoever holds the lock is inside a section it can leave, so a
\* thread waiting for the lock gets it and finishes its tick and its final
\* flush; and the only states without a next step are those where the handler
\* is idle and every thread has ended or stands at the loop test.
C36_NoJoinUnderLock ==
  Synced =>
    /\ sync.cmd \in {"stop_set", "stop_join", "clear_set", "clear_join"} =>
         sync.lock # Handler
    /\ sync.lock = Handler => sync.cmd \in {CmdInside(pc) : pc \in CmdWaiting}
    /\ \A i \in DOMAIN sync.thr :
         sync.lock = i => sync.thr[i] \in {ThrInside(pc) : pc \in ThrWaiting}
    /\ ~ENABLED NextSync =>
         /\ sync.cmd = "idle"
         /\ \A i \in DOMAIN sync.thr : sync.thr[i] \in {"test", "done"}

\* the handler of a stop request waits in join() while the logging thread
\* holds state_lock inside its tick
C36_JoinWhileThreadLocked ==
  /\ Synced /\ sync.cmd = "stop_join"
  /\ sync.lock \in DOMAIN sync.thr
  /\ sync.thr[sync.lock] = "count_h"

\* C37: in the cache of loger.py a value and its timestamp change together:
\* an entry that changes holds a valid value and the time of that reading,
\* and in every state the timestamp is non-zero exactly when the value is
\* not None.
C37_ValueAndTimeTogether ==
  [][program = "loger" =>
       \A p \in Watched :
         /\ latest'[p] # latest[p] =>
              /\ latest'[p].t = now /\ now # 0
              /\ latest'[p].val \in CbResponses \ {NULL}
         /\ (latest'[p].t # 0) <=> (latest'[p].val # None)]_vars

\* one parameter has a reading that has aged, another has been read just
\* now, a third has none yet
C37_EntriesOfDifferentAge ==
  /\ program = "loger"
  /\ \E p, q, r \in Watched :
       /\ latest[p].val # None /\ latest[p].t # 0 /\ latest[p].t < now
       /\ latest[q].val # None /\ latest[q].t = now
       /\ latest[r].val = None /\ latest[r].t = 0

\* C38: what the printer of loger.py shows for a parameter is "N/A" exactly
\* when no valid reading of it has arrived, and otherwise the latest valid
\* value, whatever its age.
C38_ShownIsLatestValid ==
  [][(program = "loger" /\ shown' # shown) =>
       \A p \in Watched :
         /\ (shown'[p] = NA) <=> (p \notin got)
         /\ p \in got => (shown'[p] = latest[p].val /\ shown'[p] # None)]_vars

\* the printer has shown a value that is older than the staleness limit,
\* beside a parameter that has never been read
C38_StaleValueShown ==
  /\ program = "loger"
  /\ \E p, q \in Watched :
       /\ latest[p].val # None /\ now - latest[p].t >= STALE
       /\ shown[p] = latest[p].val
       /\ q \notin got /\ shown[q] = NA

====
